---- MODULE Spec2Model ----
(***************************************************************************)
(* Dense LU factorization, factor extraction and solve of                  *)
(* cupyx/scipy/linalg/decomp_lu.py: lu_factor/_lu_factor, lu, the two      *)
(* elementwise kernels cupy_split_lu and cupy_laswp, and lu_solve.         *)
(*                                                                         *)
(* Buffers are flat sequences; the element at C offset k is buf[k + 1].    *)
(* Matrices handed in by a caller are sequences of rows.                   *)
(***************************************************************************)
EXTENDS Integers, Sequences, FiniteSets, TLC

\* ---------------------------------------------------------------- bounds
MaxDim == 3
MaxCells == 9
MaxInfo == 2
MaxSolveDim == 2
MaxCalls == 2
MaxCols == 2

\* ---------------------------------------------------------------- values
\* Element values: finite numbers are the naturals, NaN and Inf are the two
\* non-finite values, Uninit is the content of a cupy.empty buffer.
NaN == -1
Inf == -2
Uninit == -3

isfinite(x) == x >= 0

Min(x, y) == IF x <= y THEN x ELSE y

At(buf, off) == buf[off + 1]

InRange(buf, off) == off >= 0 /\ off < Len(buf)

\* cupy.isfinite(buf).all()
AllFinite(buf) == \A k \in 1..Len(buf) : isfinite(buf[k])

SupportedDTypes == {"f", "d", "F", "D"}
DTypes == SupportedDTypes \cup {"i"}

\* numpy dtype.kind of a dtype.char
Kind(dt) == IF dt \in {"f", "d"} THEN "f" ELSE IF dt \in {"F", "D"} THEN "c" ELSE "i"

Threads == {"t1", "t2"}

VARIABLES
    dtype,          \* dtype.char of the input of lu_factor / of lu
    check_finite,   \* the check_finite argument of lu_factor / lu
    m, n,           \* shape of the matrix
    a,              \* the caller's matrix, a sequence of m rows of n values
    prim,           \* what getrf answers for this input: [info, ipiv (1-origin)]
    fpc,            \* _lu_factor call: "idle", "call", "raised", "returned"
    error,          \* the exception that ended the call: [kind, arg]
    warnings,       \* sequence of the diagonal numbers warned about
    getrfCalls,     \* number of invocations of the getrf primitive
    lu,             \* packed factorization, column-major flat buffer
    piv,            \* 0-origin pivot vector
    lpc,            \* lu call: "off", "idle", "split", "laswp", "raised"
    permute_l,      \* the permute_l argument of the lu call in progress
    L, U,           \* the row-major output buffers of cupy_split_lu
    Lw, Uw,         \* per cell of L / U: the tasks that wrote it, in order
    splitDone,      \* the cupy_split_lu tasks that have run
    oob,            \* an access outside a buffer has happened
    P,              \* the row-major (m, m) buffer of the permutation matrix
    laswpDone,      \* the cupy_laswp tasks (columns) that have run
    res,            \* results returned by the lu calls, by permute_l
    sv,             \* lu_solve: per thread, the call in progress
    nCalls,         \* lu_solve calls started so far
    getrsCalls,     \* number of invocations of the getrs primitive
    lw              \* cupy_laswp with interleaved steps: the kernel launch

vars == <<dtype, check_finite, m, n, a, prim, fpc, error, warnings, getrfCalls,
          lu, piv, lpc, permute_l, L, U, Lw, Uw, splitDone, oob, P, laswpDone,
          res, sv, nCalls, getrsCalls, lw>>

factorIn == <<dtype, check_finite, m, n, a, prim>>
factorOut == <<fpc, error, warnings, getrfCalls, lu, piv>>
luVars == <<lpc, permute_l, L, U, Lw, Uw, splitDone, oob, P, laswpDone, res>>
solveVars == <<sv, nCalls, getrsCalls>>

\* ------------------------------------------------------------ input sets
Shapes(maxd) == {s \in (1..maxd) \X (1..maxd) : s[1] * s[2] <= MaxCells}

\* A matrix of pairwise distinct finite values; kind "nan" / "inf" puts one
\* non-finite value in the last cell.
InputMatrix(mm, nn, kind) ==
    [r \in 1..mm |-> [c \in 1..nn |->
        IF r = mm /\ c = nn /\ kind = "nan" THEN NaN
        ELSE IF r = mm /\ c = nn /\ kind = "inf" THEN Inf
        ELSE 2 + (c - 1) + (r - 1) * nn]]

\* The pivot vectors getrf can produce for an (mm, nn) matrix, 1-origin:
\* entry i (1-origin) names a row in i..mm.
PivotVectors1(mm, kk) == {p \in [1..kk -> 1..mm] : \A i \in 1..kk : p[i] >= i}

\* The status codes of getrf: -k for an illegal k-th argument, 0, or k for an
\* exactly zero k-th diagonal element (k <= min(m, n)).
StatusCodes(kk) == {s \in (0 - MaxInfo)..MaxInfo : s <= kk}

NoError == [kind |-> "none", arg |-> 0]
NoSolve == [pc |-> "idle", overwrite_b |-> FALSE, check_finite |-> FALSE,
            b |-> <<>>, ipiv |-> <<>>, error |-> NoError]
NoResult == [done |-> FALSE, P |-> <<>>, L |-> <<>>, U |-> <<>>]
NoLaswp == [M |-> 0, N |-> 0, K |-> 0, PIV |-> <<>>, A |-> <<>>, A0 |-> <<>>,
            task |-> <<>>, acc |-> <<>>, oob |-> FALSE]

\* ------------------------------------------------------------- lu_factor
\* a.astype(dtype, order='F'): the column-major flat buffer of a matrix.
ToFortran(mat, mm, nn) ==
    [k \in 1..(mm * nn) |-> mat[((k - 1) % mm) + 1][((k - 1) \div mm) + 1]]

\* The packed buffer getrf leaves behind: an opaque value per cell (distinct
\* finite values), NaN from the zero diagonal element on when the matrix was
\* singular, NaN everywhere when the input was not finite.
GetrfPacked(buf, mm, info) ==
    [k \in 1..Len(buf) |->
        IF ~AllFinite(buf) THEN NaN
        ELSE IF info > 0 /\ ((k - 1) % mm) >= info THEN NaN
        ELSE k + 1]

\* the pivots left 1-origin
ToZeroOriginKept(ipiv) == ipiv

\* ipiv -= 1
ToZeroOrigin(ipiv) == [i \in 1..Len(ipiv) |-> ipiv[i] - 1]

\* ipiv += 1
ToOneOrigin(ipiv) == [i \in 1..Len(ipiv) |-> ipiv[i] + 1]

\* The finiteness test of _lu_factor and lu_solve on one array.
FiniteCheckFails(dt, buf) == Kind(dt) = "f" /\ ~AllFinite(buf)

\* _lu_factor(a, overwrite_a, check_finite): the whole call, on a rank-2 a.
\* overwrite_a only selects whether the column-major working buffer reuses the
\* caller's storage; a keeps the value the caller passed in.
LuFactorBody ==
    LET buf == ToFortran(a, m, n) IN
    IF dtype \notin SupportedDTypes THEN
        /\ fpc' = "raised"
        /\ error' = [kind |-> "unsupported dtype", arg |-> 0]
        /\ UNCHANGED <<warnings, getrfCalls, lu, piv>>
    ELSE IF check_finite /\ FiniteCheckFails(dtype, buf) THEN
        /\ fpc' = "raised"
        /\ error' = [kind |-> "array must not contain infs or NaNs", arg |-> 0]
        /\ UNCHANGED <<warnings, getrfCalls, lu, piv>>
    ELSE
        /\ getrfCalls' = getrfCalls + 1
        /\ IF prim.info < 0 THEN
               /\ fpc' = "raised"
               /\ error' = [kind |-> "illegal value in getrf", arg |-> 0 - prim.info]
               /\ UNCHANGED <<warnings, lu, piv>>
           ELSE
               /\ fpc' = "returned"
               /\ warnings' = IF prim.info > 0 THEN Append(warnings, prim.info)
                              ELSE warnings
               /\ lu' = GetrfPacked(buf, m, prim.info)
               /\ piv' = ToZeroOrigin(prim.ipiv)
               /\ UNCHANGED error

\* lu_factor(a, overwrite_a, check_finite)
LuFactor ==
    /\ fpc = "call"
    /\ LuFactorBody
    /\ UNCHANGED <<factorIn, luVars, solveVars, lw>>

\* -------------------------------------------------------- cupy_split_lu
\* the diagonal of L taken from the packed buffer
LValPacked(row, col, lu_val) ==
    IF row >= col THEN lu_val ELSE 0

\* l_val of the task at (row, col)
LVal(row, col, lu_val) ==
    IF row > col THEN lu_val ELSE IF row = col THEN 1 ELSE 0

\* u_val of the task at (row, col)
UVal(row, col, lu_val) ==
    IF row > col THEN 0 ELSE lu_val

\* offset read in the column-major packed buffer
LUOffset(row, col, M) == row + col * M

\* offset written in the row-major L of shape (M, K)
LOffset(row, col, K) == col + row * K

\* offset written in the row-major U of shape (K, N)
UOffset(row, col, N) == col + row * N

\* L written by every task
WritesLAlways(row, col, K) == TRUE

\* the task writes L / U
WritesL(row, col, K) == col < K
WritesU(row, col, K) == row < K

\* one task per cell of L only
SplitSizeOfL(M, N) == M * Min(M, N)

\* size = m * n: the number of tasks of the launch in lu
SplitSize(M, N) == M * N

\* One task i of the kernel on buffers (LU, Lb, Ub): the buffers after it and
\* whether the task stayed inside all three buffers.
SplitTask(i, LU, M, N, K, Lb, Ub) ==
    LET row == i \div N
        col == i % N
        ro == LUOffset(row, col, M)
        rok == InRange(LU, ro)
        lu_val == IF rok THEN At(LU, ro) ELSE Uninit
        lo == LOffset(row, col, K)
        uo == UOffset(row, col, N)
        wl == WritesL(row, col, K)
        wu == WritesU(row, col, K)
    IN [L |-> IF wl /\ InRange(Lb, lo)
              THEN [Lb EXCEPT ![lo + 1] = LVal(row, col, lu_val)] ELSE Lb,
        U |-> IF wu /\ InRange(Ub, uo)
              THEN [Ub EXCEPT ![uo + 1] = UVal(row, col, lu_val)] ELSE Ub,
        lcell |-> IF wl /\ InRange(Lb, lo) THEN lo + 1 ELSE 0,
        ucell |-> IF wu /\ InRange(Ub, uo) THEN uo + 1 ELSE 0,
        ok |-> rok /\ (wl => InRange(Lb, lo)) /\ (wu => InRange(Ub, uo))]

\* ----------------------------------------------------------- cupy_laswp
\* column-major addressing of the target
SwapOffsetColMajor(col, row, N) == row + col * N

\* offset of (row, col) in the row-major target of N columns
SwapOffset(col, row, N) == col + row * N

\* if (row_j <= row_k) continue;
SkipSwap(row_j, row_k) == row_j <= row_k

\* the exchange without tmp
SwapCellsNoTmp(A, o1, o2) ==
    LET A1 == [A EXCEPT ![o1 + 1] = A[o2 + 1]]
    IN [A1 EXCEPT ![o2 + 1] = A1[o1 + 1]]

\* the three statements that exchange A[o1] and A[o2] through tmp
SwapCells(A, o1, o2) ==
    LET tmp == A[o1 + 1]
        A1 == [A EXCEPT ![o1 + 1] = A[o2 + 1]]
    IN [A1 EXCEPT ![o2 + 1] = tmp]

\* The task of column col, from loop position row_k on, run without
\* interruption: [A, ok].
RECURSIVE LaswpTask(_, _, _, _, _, _)
LaswpTask(A, N, K, PIV, col, row_k) ==
    IF row_k >= K THEN [A |-> A, ok |-> TRUE]
    ELSE LET row_j == At(PIV, row_k)
             o1 == SwapOffset(col, row_k, N)
             o2 == SwapOffset(col, row_j, N)
         IN IF SkipSwap(row_j, row_k) THEN LaswpTask(A, N, K, PIV, col, row_k + 1)
            ELSE IF InRange(A, o1) /\ InRange(A, o2)
            THEN LaswpTask(SwapCells(A, o1, o2), N, K, PIV, col, row_k + 1)
            ELSE [A |-> A, ok |-> FALSE]

\* -------------------------------------------------------------------- lu
\* cupy.empty(size)
Empty(size) == [k \in 1..size |-> Uninit]

\* cupy.diag(cupy.ones((M,))), row-major
Identity(M) == [k \in 1..(M * M) |-> IF (k - 1) \div M = (k - 1) % M THEN 1 ELSE 0]

\* L permuted with the row stride of P
LaswpArgsStrideM(pl, M, K) ==
    IF pl THEN [M |-> M, N |-> M, K |-> K, size |-> K, target |-> "L"]
    ELSE [M |-> M, N |-> M, K |-> K, size |-> M, target |-> "P"]

\* The arguments of the cupy_laswp launch of lu: (M, N, K, size) and which
\* buffer is the target.
LaswpArgs(pl, M, K) ==
    IF pl THEN [M |-> M, N |-> K, K |-> K, size |-> K, target |-> "L"]
    ELSE [M |-> M, N |-> M, K |-> K, size |-> M, target |-> "P"]

\* lu(a, permute_l, overwrite_a, check_finite), up to the launch of
\* cupy_split_lu: the _lu_factor call and the allocation of L and U.
Lu(pl) ==
    /\ lpc = "idle"
    /\ ~res[pl].done
    /\ pl => res[FALSE].done
    /\ LuFactorBody
    /\ permute_l' = pl
    /\ IF fpc' = "returned" THEN
           LET k == Min(m, n) IN
           /\ lpc' = "split"
           /\ L' = Empty(m * k)
           /\ U' = Empty(k * n)
           /\ Lw' = [c \in 1..(m * k) |-> <<>>]
           /\ Uw' = [c \in 1..(k * n) |-> <<>>]
           /\ splitDone' = {}
       ELSE
           /\ lpc' = "raised"
           /\ UNCHANGED <<L, U, Lw, Uw, splitDone>>
    /\ UNCHANGED <<factorIn, oob, P, laswpDone, res, solveVars, lw>>

\* One task of the cupy_split_lu launch of lu.
SplitLuTask(i) ==
    /\ lpc = "split"
    /\ i \in 0..(SplitSize(m, n) - 1)
    /\ i \notin splitDone
    /\ LET t == SplitTask(i, lu, m, n, Min(m, n), L, U) IN
       /\ L' = t.L
       /\ U' = t.U
       /\ Lw' = IF t.lcell > 0 THEN [Lw EXCEPT ![t.lcell] = Append(@, i)] ELSE Lw
       /\ Uw' = IF t.ucell > 0 THEN [Uw EXCEPT ![t.ucell] = Append(@, i)] ELSE Uw
       /\ oob' = (oob \/ ~t.ok)
    /\ splitDone' = splitDone \cup {i}
    /\ UNCHANGED <<factorIn, factorOut, lpc, permute_l, P, laswpDone, res, solveVars, lw>>

\* lu after cupy_split_lu has finished: the creation of P when permute_l is
\* false, and the launch of cupy_laswp.
LuLaunchLaswp ==
    /\ lpc = "split"
    /\ splitDone = 0..(SplitSize(m, n) - 1)
    /\ lpc' = "laswp"
    /\ P' = IF permute_l THEN <<>> ELSE Identity(m)
    /\ laswpDone' = {}
    /\ UNCHANGED <<factorIn, factorOut, permute_l, L, U, Lw, Uw, splitDone, oob, res,
                   solveVars, lw>>

\* One task (one column) of the cupy_laswp launch of lu.
LuLaswpTask(col) ==
    /\ lpc = "laswp"
    /\ LET g == LaswpArgs(permute_l, m, Min(m, n)) IN
       /\ col \in 0..(g.size - 1)
       /\ col \notin laswpDone
       /\ LET t == LaswpTask(IF g.target = "L" THEN L ELSE P, g.N, g.K, piv, col, 0) IN
          /\ L' = IF g.target = "L" THEN t.A ELSE L
          /\ P' = IF g.target = "P" THEN t.A ELSE P
          /\ oob' = (oob \/ ~t.ok)
    /\ laswpDone' = laswpDone \cup {col}
    /\ UNCHANGED <<factorIn, factorOut, lpc, permute_l, U, Lw, Uw, splitDone, res,
                   solveVars, lw>>

\* return (L, U) / return (P, L, U)
LuReturn ==
    /\ lpc = "laswp"
    /\ laswpDone = 0..(LaswpArgs(permute_l, m, Min(m, n)).size - 1)
    /\ lpc' = "idle"
    /\ res' = [res EXCEPT ![permute_l] = [done |-> TRUE, P |-> P, L |-> L, U |-> U]]
    /\ UNCHANGED <<factorIn, factorOut, permute_l, L, U, Lw, Uw, splitDone, oob, P,
                   laswpDone, solveVars, lw>>

\* ------------------------------------------- cupy_laswp, step by step
\* The launch lw runs one task per column of the row-major target lw.A; a
\* task is at loop position row_k and at one of the memory operations of the
\* exchange: "loop" (loop test, PIV read, skip test and tmp = A[o1]),
\* "r2" (read of A[o2]), "w1" (A[o1] = ...), "w2" (A[o2] = tmp).
LaswpStart(col) == [row_k |-> 0, step |-> "loop", tmp |-> 0, t2 |-> 0]

Touch(acc, off, col) == [acc EXCEPT ![off + 1] = @ \cup {col}]

LaswpStep(col) ==
    /\ lw.M > 0
    /\ col \in 0..(lw.N - 1)
    /\ LET t == lw.task[col + 1]
           row_j == At(lw.PIV, t.row_k)
           o1 == SwapOffset(col, t.row_k, lw.N)
           o2 == SwapOffset(col, row_j, lw.N)
           fault == [lw EXCEPT !.oob = TRUE, !.task[col + 1].step = "done"]
       IN
       /\ t.step # "done"
       /\ lw' =
            IF t.step = "loop" THEN
                IF t.row_k >= lw.K THEN [lw EXCEPT !.task[col + 1].step = "done"]
                ELSE IF SkipSwap(row_j, t.row_k)
                THEN [lw EXCEPT !.task[col + 1].row_k = @ + 1]
                ELSE IF ~InRange(lw.A, o1) THEN fault
                ELSE [lw EXCEPT !.task[col + 1].tmp = At(lw.A, o1),
                                !.task[col + 1].step = "r2",
                                !.acc = Touch(@, o1, col)]
            ELSE IF t.step = "r2" THEN
                IF ~InRange(lw.A, o2) THEN fault
                ELSE [lw EXCEPT !.task[col + 1].t2 = At(lw.A, o2),
                                !.task[col + 1].step = "w1",
                                !.acc = Touch(@, o2, col)]
            ELSE IF t.step = "w1" THEN
                [lw EXCEPT !.A[o1 + 1] = t.t2,
                           !.task[col + 1].step = "w2",
                           !.acc = Touch(@, o1, col)]
            ELSE
                [lw EXCEPT !.A[o2 + 1] = t.tmp,
                           !.task[col + 1].tmp = 0,
                           !.task[col + 1].t2 = 0,
                           !.task[col + 1].row_k = @ + 1,
                           !.task[col + 1].step = "loop",
                           !.acc = Touch(@, o2, col)]
    /\ UNCHANGED <<factorIn, factorOut, luVars, solveVars>>

\* The tasks of columns col..N-1 run one after another.
RECURSIVE LaswpSequential(_, _, _, _, _)
LaswpSequential(A, N, K, PIV, col) ==
    IF col >= N THEN A
    ELSE LaswpSequential(LaswpTask(A, N, K, PIV, col, 0).A, N, K, PIV, col + 1)

\* -------------------------------------------------------------- lu_solve
\* ipiv.astype(..., copy=False): the caller's array itself
IpivNoCopy == FALSE

\* ipiv.astype(ipiv.dtype, order='F', copy=True): the result is a new array.
IpivIsCopy == TRUE

\* A right-hand side of the given length: distinct finite values, with one
\* non-finite value in the last place for kind "nan" / "inf".
BVector(rows, kind) ==
    [k \in 1..rows |-> IF k = rows /\ kind = "nan" THEN NaN
                       ELSE IF k = rows /\ kind = "inf" THEN Inf
                       ELSE k + 1]

\* What getrs leaves in b: an opaque finite solution.
GetrsSolution(b) == [k \in 1..Len(b) |-> 1]

SolveRaise(t, kind, arg) ==
    sv' = [sv EXCEPT ![t] = [NoSolve EXCEPT !.pc = "raised",
                                            !.error = [kind |-> kind, arg |-> arg]]]

\* lu_solve((lu, piv), b, trans, overwrite_b, check_finite): the argument
\* checks up to the choice of trans.
SolveCall(t) ==
    /\ fpc = "returned"
    /\ sv[t].pc \in {"idle", "raised", "returned"}
    /\ nCalls < MaxCalls
    /\ nCalls' = nCalls + 1
    /\ \E trans \in 0..3, ob \in BOOLEAN, cf \in BOOLEAN,
          bk \in {"finite", "nan", "inf"}, brows \in {m, m + 1} :
          IF m # n THEN SolveRaise(t, "expected square matrix", 0)
          ELSE IF m # brows THEN SolveRaise(t, "incompatible dimensions", 0)
          ELSE IF dtype \notin SupportedDTypes THEN SolveRaise(t, "unsupported dtype", 0)
          ELSE IF trans \notin {0, 1, 2} THEN SolveRaise(t, "unknown trans", 0)
          ELSE sv' = [sv EXCEPT ![t] = [NoSolve EXCEPT !.pc = "prepare",
                                                       !.overwrite_b = ob,
                                                       !.check_finite = cf,
                                                       !.b = BVector(brows, bk)]]
    /\ UNCHANGED <<factorIn, factorOut, luVars, getrsCalls, lw>>

\* lu.astype(copy=False), ipiv.astype(copy=True), ipiv += 1, b.astype(...)
SolvePrepare(t) ==
    /\ sv[t].pc = "prepare"
    /\ IF IpivIsCopy
       THEN /\ sv' = [sv EXCEPT ![t].pc = "check", ![t].ipiv = ToOneOrigin(piv)]
            /\ UNCHANGED piv
       ELSE /\ piv' = ToOneOrigin(piv)
            /\ sv' = [sv EXCEPT ![t].pc = "check", ![t].ipiv = ToOneOrigin(piv)]
    /\ UNCHANGED <<factorIn, fpc, error, warnings, getrfCalls, lu, luVars, nCalls,
                   getrsCalls, lw>>

\* if check_finite: ...
SolveCheck(t) ==
    /\ sv[t].pc = "check"
    /\ IF sv[t].check_finite /\ FiniteCheckFails(dtype, lu)
       THEN SolveRaise(t, "array must not contain infs or NaNs (lu)", 0)
       ELSE IF sv[t].check_finite /\ FiniteCheckFails(dtype, sv[t].b)
       THEN SolveRaise(t, "array must not contain infs or NaNs", 0)
       ELSE sv' = [sv EXCEPT ![t].pc = "getrs"]
    /\ UNCHANGED <<factorIn, factorOut, luVars, nCalls, getrsCalls, lw>>

\* The getrs call, the test of its status and the return of b.
SolveGetrs(t) ==
    /\ sv[t].pc = "getrs"
    /\ getrsCalls' = getrsCalls + 1
    /\ \E info \in (0 - MaxInfo)..0 :
          IF info < 0 THEN SolveRaise(t, "illegal value in getrs", 0 - info)
          ELSE sv' = [sv EXCEPT ![t] = [NoSolve EXCEPT !.pc = "returned",
                                                       !.b = GetrsSolution(sv[t].b)]]
    /\ UNCHANGED <<factorIn, factorOut, luVars, nCalls, lw>>

lu_solve(t) == SolveCall(t) \/ SolvePrepare(t) \/ SolveCheck(t) \/ SolveGetrs(t)

\* -------------------------------------------------------- specifications
Quiet ==
    /\ error = NoError
    /\ warnings = <<>>
    /\ getrfCalls = 0
    /\ lu = <<>>
    /\ piv = <<>>
    /\ permute_l = FALSE
    /\ L = <<>> /\ U = <<>> /\ Lw = <<>> /\ Uw = <<>>
    /\ splitDone = {}
    /\ oob = FALSE
    /\ P = <<>>
    /\ laswpDone = {}
    /\ res = [pl \in BOOLEAN |-> NoResult]
    /\ sv = [t \in Threads |-> NoSolve]
    /\ nCalls = 0
    /\ getrsCalls = 0

\* A caller about to call lu_factor on any matrix, then lu_solve with its result.
Init ==
    /\ dtype \in DTypes
    /\ check_finite \in BOOLEAN
    /\ \E s \in Shapes(MaxDim), kind \in {"finite", "nan", "inf"} :
          /\ m = s[1]
          /\ n = s[2]
          /\ a = InputMatrix(s[1], s[2], kind)
          /\ prim \in [info : StatusCodes(Min(s[1], s[2])),
                       ipiv : PivotVectors1(s[1], Min(s[1], s[2]))]
    /\ fpc = "call"
    /\ lpc = "off"
    /\ lw = NoLaswp
    /\ Quiet

Next == LuFactor \/ lu_solve("t1")

Spec == Init /\ [][Next]_vars

\* A caller about to call lu on a finite matrix, first with permute_l false,
\* then with permute_l true.
InitLu ==
    /\ dtype \in {"f", "D"}
    /\ check_finite = TRUE
    /\ \E s \in Shapes(MaxDim) :
          /\ m = s[1]
          /\ n = s[2]
          /\ a = InputMatrix(s[1], s[2], "finite")
          /\ prim \in [info : StatusCodes(Min(s[1], s[2])),
                       ipiv : PivotVectors1(s[1], Min(s[1], s[2]))]
    /\ fpc = "idle"
    /\ lpc = "idle"
    /\ lw = NoLaswp
    /\ Quiet

NextLu ==
    \/ \E pl \in BOOLEAN : Lu(pl)
    \/ \E i \in 0..(MaxCells - 1) : SplitLuTask(i)
    \/ LuLaunchLaswp
    \/ \E col \in 0..(MaxDim - 1) : LuLaswpTask(col)
    \/ LuReturn

SpecLu == InitLu /\ [][NextLu]_vars

\* Two threads calling lu_solve on one factorization (lu, piv).
InitSolve ==
    /\ dtype \in {"f", "D", "i"}
    /\ check_finite = TRUE
    /\ \E s \in Shapes(MaxSolveDim), info \in {0, 1} :
          /\ m = s[1]
          /\ n = s[2]
          /\ a = InputMatrix(s[1], s[2], "finite")
          /\ prim \in [info : {info}, ipiv : PivotVectors1(s[1], Min(s[1], s[2]))]
          /\ lu = GetrfPacked(ToFortran(a, m, n), m, info)
          /\ piv = ToZeroOrigin(prim.ipiv)
    /\ fpc = "returned"
    /\ error = NoError /\ warnings = <<>> /\ getrfCalls = 1
    /\ lpc = "off" /\ permute_l = FALSE
    /\ L = <<>> /\ U = <<>> /\ Lw = <<>> /\ Uw = <<>> /\ splitDone = {}
    /\ oob = FALSE /\ P = <<>> /\ laswpDone = {}
    /\ res = [pl \in BOOLEAN |-> NoResult]
    /\ sv = [t \in Threads |-> NoSolve]
    /\ nCalls = 0 /\ getrsCalls = 0
    /\ lw = NoLaswp

NextSolve == \E t \in Threads : lu_solve(t)

SpecSolve == InitSolve /\ [][NextSolve]_vars

\* One launch of cupy_laswp on a row-major (M, N) target of distinct values,
\* with K <= M and any pivots in [0, M).
InitLaswp ==
    /\ dtype = "f" /\ check_finite = TRUE /\ m = 1 /\ n = 1
    /\ a = InputMatrix(1, 1, "finite")
    /\ prim = [info |-> 0, ipiv |-> <<1>>]
    /\ fpc = "idle"
    /\ lpc = "off"
    /\ Quiet
    /\ \E M \in 1..MaxDim, N \in 1..MaxCols :
       \E K \in 1..M :
       \E PIV \in [1..K -> 0..(M - 1)] :
          lw = [M |-> M, N |-> N, K |-> K, PIV |-> PIV,
                A |-> [k \in 1..(M * N) |-> k + 1],
                A0 |-> [k \in 1..(M * N) |-> k + 1],
                task |-> [c \in 1..N |-> LaswpStart(c - 1)],
                acc |-> [k \in 1..(M * N) |-> {}],
                oob |-> FALSE]

NextLaswp == \E col \in 0..(MaxCols - 1) : LaswpStep(col)

SpecLaswp == InitLaswp /\ [][NextLaswp]_vars

\* ------------------------------------------------------ claim helpers
\* Arithmetic on element values. The entries of a permutation matrix are the
\* exact numbers 0 and 1: 0 * x contributes nothing and 1 * x is x, so that a
\* product with a permutation matrix selects rows.
Mul(p, x) == IF p = 0 THEN 0 ELSE IF p = 1 THEN x
             ELSE IF isfinite(p) /\ isfinite(x) THEN p * x ELSE NaN

Add(x, y) == IF x = 0 THEN y ELSE IF y = 0 THEN x
             ELSE IF isfinite(x) /\ isfinite(y) THEN x + y ELSE NaN

\* sum over j in j..rows-1 of Pm[r, j] * X[j, c], Pm row-major (rows, rows),
\* X row-major with ncols columns
RECURSIVE Dot(_, _, _, _, _, _, _)
Dot(Pm, rows, X, ncols, r, c, j) ==
    IF j >= rows THEN 0
    ELSE Add(Mul(At(Pm, j + r * rows), At(X, c + j * ncols)),
             Dot(Pm, rows, X, ncols, r, c, j + 1))

\* the row-major flat buffer of a matrix given as a sequence of rows
RowMajor(mat, mm, nn) ==
    [k \in 1..(mm * nn) |-> mat[((k - 1) \div nn) + 1][((k - 1) % nn) + 1]]

\* The matrix getrf factors: for i = 0..K-1 ascending, row i exchanged with
\* row pv[i] (pv 0-origin), from step i on.
RECURSIVE Interchange(_, _, _)
Interchange(mat, pv, i) ==
    IF i >= Len(pv) THEN mat
    ELSE Interchange([mat EXCEPT ![i + 1] = mat[At(pv, i) + 1],
                                 ![At(pv, i) + 1] = mat[i + 1]], pv, i + 1)

IsPermutationMatrix(Pm, rows) ==
    /\ Len(Pm) = rows * rows
    /\ \A k \in 1..Len(Pm) : Pm[k] \in {0, 1}
    /\ \A r \in 0..(rows - 1) :
          Cardinality({c \in 0..(rows - 1) : At(Pm, c + r * rows) = 1}) = 1
    /\ \A c \in 0..(rows - 1) :
          Cardinality({r \in 0..(rows - 1) : At(Pm, c + r * rows) = 1}) = 1

\* cupy_split_lu with its tasks run one after another, i, i+1, ..., size-1
RECURSIVE SplitSequential(_, _, _, _, _, _, _)
SplitSequential(i, LU, M, N, K, Lb, Ub) ==
    IF i >= M * N THEN [L |-> Lb, U |-> Ub]
    ELSE LET t == SplitTask(i, LU, M, N, K, Lb, Ub)
         IN SplitSequential(i + 1, LU, M, N, K, t.L, t.U)

\* every task of the cupy_split_lu launch has run
SplitComplete == lpc = "split" /\ splitDone = 0..(SplitSize(m, n) - 1)

Writers(w, i) == {c \in 1..Len(w) : \E x \in 1..Len(w[c]) : w[c][x] = i}

\* ---------------------------------------------------------------- claims
\* C1: lu(a, permute_l=False) after a successful factorization whose pivots
\* record the row interchanges returns P with P * (L*U) = A, L*U being A with
\* the interchanges applied.
C1_PTimesLUIsA ==
    (res[FALSE].done /\ prim.info = 0) =>
        LET LUprod == RowMajor(Interchange(a, piv, 0), m, n) IN
        \A r \in 0..(m - 1), c \in 0..(n - 1) :
            Dot(res[FALSE].P, m, LUprod, n, r, c, 0) = a[r + 1][c + 1]

\* C2: with check_finite, lu_factor raises on any non-finite input element
\* and lu_solve raises on any non-finite element of lu or b, for each of the
\* four dtypes, and getrf / getrs is not invoked.
C2_NonFiniteRejected ==
    /\ (fpc # "call" /\ check_finite /\ dtype \in SupportedDTypes
            /\ ~AllFinite(ToFortran(a, m, n)))
        => (fpc = "raised" /\ getrfCalls = 0)
    /\ \A t \in Threads :
          (sv[t].pc = "getrs" /\ sv[t].check_finite)
              => (AllFinite(lu) /\ AllFinite(sv[t].b))

\* C3: in lu_factor a negative status -k raises an error carrying k and
\* returns nothing; a positive status k raises nothing, warns exactly once
\* naming k and returns; status 0 returns without a warning; every returned
\* pivot is the primitive's 1-origin pivot minus 1.
C3_StatusDecides ==
    (fpc \in {"raised", "returned"} /\ getrfCalls = 1) =>
        /\ prim.info < 0 => /\ fpc = "raised"
                            /\ error.arg = 0 - prim.info
                            /\ lu = <<>> /\ piv = <<>>
        /\ prim.info > 0 => /\ fpc = "returned"
                            /\ error = NoError
                            /\ warnings = <<prim.info>>
        /\ prim.info = 0 => fpc = "returned" /\ error = NoError /\ warnings = <<>>
        /\ fpc = "returned" =>
              /\ Len(lu) = m * n
              /\ Len(piv) = Len(prim.ipiv)
              /\ \A i \in 1..Len(piv) : piv[i] = prim.ipiv[i] - 1

C3_Witness ==
    /\ fpc = "returned" /\ prim.info > 0 /\ warnings # <<>>
    /\ Len(piv) = 2 /\ piv[1] = 1

\* C4: cupy_laswp run on the (M, M) identity with K <= M pivots, piv[i] in
\* [i, M), leaves a 0/1 matrix with exactly one 1 per row and per column.
C4_LaswpOfIdentityIsPermutation ==
    (lpc = "laswp" /\ ~permute_l /\ laswpDone = 0..(m - 1)) =>
        IsPermutationMatrix(P, m)

C4_Witness ==
    /\ lpc = "laswp" /\ ~permute_l /\ laswpDone = 0..(m - 1)
    /\ m = 3 /\ n = 2 /\ piv = <<1, 2>>

\* C5: after all tasks of cupy_split_lu, L[r,c] is LU[r,c] below the diagonal,
\* 1 on it and 0 above it, and U[r,c] is LU[r,c] on and above the diagonal and
\* 0 below it, whatever the packed values are.
C5_SplitValues ==
    SplitComplete =>
        LET k == Min(m, n) IN
        /\ \A r \in 0..(m - 1), c \in 0..(k - 1) :
              L[c + r * k + 1] = IF r > c THEN lu[r + c * m + 1]
                                 ELSE IF r = c THEN 1 ELSE 0
        /\ \A r \in 0..(k - 1), c \in 0..(n - 1) :
              U[c + r * n + 1] = IF r <= c THEN lu[r + c * m + 1] ELSE 0

C5_Witness ==
    /\ SplitComplete /\ m = 3 /\ n = 2 /\ prim.info = 1
    /\ L[3] = NaN /\ L[4] = 1

\* C6: each task of cupy_split_lu writes at most one cell of L (only when
\* col < K, at col + row*K) and at most one cell of U (only when row < K, at
\* col + row*N), no cell is written by two tasks, and the final L and U are
\* those of the tasks run one after another.
C6_SplitWritesDisjoint ==
    lpc = "split" =>
        LET k == Min(m, n) IN
        /\ \A c \in 1..Len(Lw) : Len(Lw[c]) <= 1
        /\ \A c \in 1..Len(Uw) : Len(Uw[c]) <= 1
        /\ \A i \in splitDone :
              /\ Writers(Lw, i) = IF i % n < k THEN {(i % n) + (i \div n) * k + 1} ELSE {}
              /\ Writers(Uw, i) = IF i \div n < k THEN {(i % n) + (i \div n) * n + 1} ELSE {}
        /\ SplitComplete =>
              LET q == SplitSequential(0, lu, m, n, k, Empty(m * k), Empty(k * n))
              IN L = q.L /\ U = q.U

C6_Witness ==
    /\ SplitComplete /\ m = 2 /\ n = 3
    /\ Lw[1] = <<0>> /\ Lw[4] = <<4>> /\ Uw[6] = <<5>>

\* C7: in cupy_laswp the task of column c accesses only cells of column c, and
\* under every interleaving of the tasks' reads and writes the final target is
\* the one of the tasks run one after another.
C7_LaswpColumnsIsolated ==
    lw.M > 0 =>
        /\ ~lw.oob
        /\ \A k \in 1..Len(lw.acc) : lw.acc[k] \subseteq {(k - 1) % lw.N}
        /\ (\A c \in 1..lw.N : lw.task[c].step = "done") =>
              lw.A = LaswpSequential(lw.A0, lw.N, lw.K, lw.PIV, 0)

C7_Witness ==
    /\ lw.M = 3 /\ lw.N = 2 /\ lw.PIV = <<1, 2>>
    /\ \A c \in 1..lw.N : lw.task[c].step = "done"
    /\ lw.A = <<4, 5, 6, 7, 2, 3>>

C10_SplitCoversOutputs ==
    /\ ~oob
    /\ SplitComplete =>
          /\ Len(L) = m * Min(m, n) /\ Len(U) = Min(m, n) * n
          /\ \A c \in 1..Len(Lw) : Len(Lw[c]) = 1 /\ L[c] # Uninit
          /\ \A c \in 1..Len(Uw) : Len(Uw[c]) = 1 /\ U[c] # Uninit

C10_Witness ==
    /\ SplitComplete /\ m = 1 /\ n = 3
    /\ Lw = <<(<<0>>)>> /\ Uw = <<(<<0>>), <<1>>, <<2>>>>

====
